---- MODULE Spec2Model ----
(***************************************************************************)
(* State-machine model of src/youtube_transcripts.py: the FastAPI          *)
(* transcript service (identifier normalisation and validation, the        *)
(* in-process transcript cache, and the two request handlers               *)
(* get_transcript and get_available_languages).                            *)
(*                                                                         *)
(* Strings are sequences of one-character strings, so that the regular     *)
(* expressions, the "&t=" split and the cache-key f-string are computed    *)
(* character by character.                                                 *)
(*                                                                         *)
(* Both handlers are "async def" bodies without a single await: the event  *)
(* loop runs a handler from its first statement to its response before it  *)
(* can start another one, so the model holds one request in flight.        *)
(***************************************************************************)
EXTENDS Integers, Sequences, FiniteSets, TLC

VARIABLES
    transcript_cache,   \* module global: cache_key -> [transcript, timestamp]
    now,                \* time.time(), in whole seconds
    ticks,              \* how often the clock was advanced from outside
    served,             \* requests answered so far
    pc,                 \* position of the running handler
    endpoint,           \* "transcript" | "languages" | "none"
    video_id,           \* the handler's raw argument
    language,           \* the handler's language argument
    clean_video_id,     \* local of the handler
    transcript_list,    \* local of the handler: the catalog listed upstream
    stub,               \* how the upstream answers the listing calls of this request
    calls,              \* upstream calls made by this request, in order
    sleeps,             \* time.sleep durations of this request, in order
    cache_ops,          \* cache reads and writes made by this request, in order
    response            \* what the handler delivers to the caller

vars == <<transcript_cache, now, ticks, served, pc, endpoint, video_id, language,
          clean_video_id, transcript_list, stub, calls, sleeps, cache_ops, response>>

(***************************************************************************)
(* Program constants                                                       *)
(***************************************************************************)
CACHE_DURATION == 3600

RETRY_DELAY == 2

\* The {11} of both regular expressions.
ID_LENGTH == 11

(***************************************************************************)
(* Bounds of the model                                                     *)
(***************************************************************************)
\* Requests served in one behaviour.
MaxRequests == 2

\* Outside advances of the clock in one behaviour.
MaxTicks == 1

\* Manually created tracks in a catalog.
MaxManual == 2

\* Generated tracks in a catalog.
MaxGenerated == 2

\* The upstream stub answers RateLimited on up to this many first attempts.
MaxRateLimited == 2

(***************************************************************************)
(* Strings                                                                 *)
(***************************************************************************)
Digits == {"0", "1", "2", "3", "4", "5", "6", "7", "8", "9"}

UpperCase == {"A", "B", "C", "D", "E", "F", "G", "H", "I", "J", "K", "L", "M",
              "N", "O", "P", "Q", "R", "S", "T", "U", "V", "W", "X", "Y", "Z"}

LowerCase == {"a", "b", "c", "d", "e", "f", "g", "h", "i", "j", "k", "l", "m",
              "n", "o", "p", "q", "r", "s", "t", "u", "v", "w", "x", "y", "z"}

\* The character class [0-9A-Za-z_-].
IdChars == Digits \cup UpperCase \cup LowerCase \cup {"_", "-"}

NEWLINE == "\n"

SetMin(S) == CHOOSE m \in S : \A n \in S : m <= n

\* Whether p occurs in s at position i.
OccursAt(s, i, p) ==
    /\ i >= 1
    /\ i + Len(p) - 1 <= Len(s)
    /\ SubSeq(s, i, i + Len(p) - 1) = p

\* str.find, 1-based; 0 when p does not occur in s.
Find(s, p) ==
    LET hits == {i \in 1..Len(s) : OccursAt(s, i, p)}
    IN  IF hits = {} THEN 0 ELSE SetMin(hits)

\* [0-9A-Za-z_-]{11} matched at position j.
IdRunAt(s, j) ==
    /\ j >= 1
    /\ j + ID_LENGTH - 1 <= Len(s)
    /\ \A k \in j..(j + ID_LENGTH - 1) : s[k] \in IdChars

\* video_id.rsplit("&t=", 1)[0]
BeforeLastTimestamp(s) ==
    LET hits == {i \in 1..Len(s) : OccursAt(s, i, <<"&", "t", "=">>)}
    IN  IF hits = {} THEN s
        ELSE SubSeq(s, 1, (CHOOSE m \in hits : \A n \in hits : n <= m) - 1)

\* video_id.split("&t=")[0]
BeforeTimestamp(s) ==
    LET at == Find(s, <<"&", "t", "=">>)
    IN  IF at > 0 THEN SubSeq(s, 1, at - 1) ELSE s

\* re.search(r"(?:v=|/)([0-9A-Za-z_-]{11}).*", s): the start of group 1 of
\* the leftmost match, 0 when there is none.  ".*" matches the empty string,
\* so it never prevents a match.
UrlPatternGroup(s) ==
    LET hits == {i \in 1..Len(s) :
                    \/ OccursAt(s, i, <<"v", "=">>) /\ IdRunAt(s, i + 2)
                    \/ OccursAt(s, i, <<"/">>) /\ IdRunAt(s, i + 1)}
    IN  IF hits = {} THEN 0
        ELSE LET i == SetMin(hits)
             IN  IF OccursAt(s, i, <<"v", "=">>) THEN i + 2 ELSE i + 1

\* Whether r"^[0-9A-Za-z_-]{11}$" matches s.  Without re.MULTILINE "$"
\* matches at the end of the string and also just before a newline that is
\* the last character of the string.
BareIdPatternMatches(s) ==
    /\ IdRunAt(s, 1)
    /\ \/ Len(s) = ID_LENGTH
       \/ Len(s) = ID_LENGTH + 1 /\ s[ID_LENGTH + 1] = NEWLINE

(***************************************************************************)
(* IdentifierNormalizer                                                    *)
(***************************************************************************)
\* extract_video_id returning the whole match instead of group 1.
extract_whole_match(raw) ==
    LET s == BeforeTimestamp(raw)
        g == UrlPatternGroup(s)
    IN  IF g > 0 THEN SubSeq(s, g, g + ID_LENGTH - 1) ELSE s

extract_video_id(raw) ==
    LET s == BeforeTimestamp(raw)
        g == UrlPatternGroup(s)
    IN  IF g > 0 THEN SubSeq(s, g, g + ID_LENGTH - 1)
        ELSE IF BareIdPatternMatches(s) THEN SubSeq(s, 1, ID_LENGTH)
        ELSE s

validate_video_id(candidate) == BareIdPatternMatches(candidate)

(***************************************************************************)
(* ResponseCache                                                           *)
(***************************************************************************)
\* The key without the language: f"{video_id}"
CacheKeyWithoutLanguage(id, lang) == id

\* f"{video_id}_{language}"
CacheKey(id, lang) == id \o <<"_">> \o lang

\* Python's None, and a returned transcript.
None == [is_none |-> TRUE, transcript |-> <<>>]

Some(t) == [is_none |-> FALSE, transcript |-> t]

\* The test of line 57 with <= for <.
IsFreshInclusive(entry, t) == t - entry.timestamp <= CACHE_DURATION

\* The test of line 57.
IsFresh(entry, t) == t - entry.timestamp < CACHE_DURATION

\* The value get_cached_transcript returns at time t.
get_cached_transcript(cache, id, lang, t) ==
    LET cache_key == CacheKey(id, lang)
    IN  IF cache_key \in DOMAIN cache /\ IsFresh(cache[cache_key], t)
        THEN Some(cache[cache_key].transcript)
        ELSE None

\* get_cached_transcript deleting the entry whatever its age.
CacheAfterGetAlwaysEvict(cache, id, lang, t) ==
    LET cache_key == CacheKey(id, lang)
    IN  [k \in DOMAIN cache \ {cache_key} |-> cache[k]]

\* The cache get_cached_transcript leaves behind at time t.
CacheAfterGet(cache, id, lang, t) ==
    LET cache_key == CacheKey(id, lang)
    IN  IF cache_key \in DOMAIN cache /\ ~IsFresh(cache[cache_key], t)
        THEN [k \in DOMAIN cache \ {cache_key} |-> cache[k]]
        ELSE cache

\* cache_transcript keyed by the language the stored transcript came from.
cache_under_source(cache, id, lang, transcript, t) ==
    LET source == IF transcript # <<>> THEN transcript[1].text[1] ELSE lang
        cache_key == CacheKey(id, source)
    IN  [k \in DOMAIN cache \cup {cache_key} |->
            IF k = cache_key
            THEN [transcript |-> transcript, timestamp |-> t]
            ELSE cache[k]]

\* The cache cache_transcript leaves behind at time t.
cache_transcript(cache, id, lang, transcript, t) ==
    LET cache_key == CacheKey(id, lang)
    IN  [k \in DOMAIN cache \cup {cache_key} |->
            IF k = cache_key
            THEN [transcript |-> transcript, timestamp |-> t]
            ELSE cache[k]]

\* Python truthiness of what get_cached_transcript returned (line 99).
Truthy(v) == ~v.is_none /\ v.transcript # <<>>

(***************************************************************************)
(* The upstream library, as the handlers see it                            *)
(***************************************************************************)
EN == <<"e", "n">>

TH == <<"t", "h">>

JA == <<"j", "a">>

CatalogLanguages == {EN, TH, JA}

LanguageName(code) ==
    IF code = EN THEN "English" ELSE IF code = TH THEN "Thai" ELSE "Japanese"

Track(code, generated) ==
    [language_code |-> code, language |-> LanguageName(code),
     is_generated |-> generated]

\* Sequences over S of length at most n without repetition: the values() of a
\* dict keyed by language code, in insertion (listing) order.
DistinctSeqs(S, n) ==
    {s \in UNION {[1..k -> S] : k \in 0..n} :
        \A i, j \in DOMAIN s : i # j => s[i] # s[j]}

TrackSeq(codes, generated) == [i \in DOMAIN codes |-> Track(codes[i], generated)]

\* What list_transcripts can return: _manually_created_transcripts and
\* _generated_transcripts.
Catalogs ==
    {[manual |-> TrackSeq(m, FALSE), generated |-> TrackSeq(g, TRUE)] :
        m \in DistinctSeqs(CatalogLanguages, MaxManual),
        g \in DistinctSeqs(CatalogLanguages, MaxGenerated)}

NoCatalog == [manual |-> <<>>, generated |-> <<>>]

NoTrack == [language_code |-> <<>>, language |-> "", is_generated |-> FALSE]

Range(s) == {s[i] : i \in DOMAIN s}

FirstWithCode(tracks, code) ==
    tracks[SetMin({i \in DOMAIN tracks : tracks[i].language_code = code})]

\* find_transcript looking at the manually created tracks only.
find_manual_only(tl, code) ==
    IF \E t \in Range(tl.manual) : t.language_code = code
    THEN FirstWithCode(tl.manual, code)
    ELSE NoTrack

\* TranscriptList.find_transcript([code]): the manually created track of that
\* code, else the generated one, else NoTranscriptFound (NoTrack here).
find_transcript(tl, code) ==
    IF \E t \in Range(tl.manual) : t.language_code = code
    THEN FirstWithCode(tl.manual, code)
    ELSE IF \E t \in Range(tl.generated) : t.language_code = code
    THEN FirstWithCode(tl.generated, code)
    ELSE NoTrack

\* A transcript segment of the track `source`, in language `target`.
Segment(source, target) ==
    [text |-> <<source, target>>, start |-> 0, duration |-> 1]

\* What fetch() can return for a track read in language `target`: no segment,
\* or the segments of that track in that language.
Fetched(source, target) == {<<>>, <<Segment(source, target)>>}

\* Exceptions the library raises.
ListingErrors == {"VideoUnavailable", "TooManyRequests", "TranscriptsDisabled", "Other"}

FetchErrors == {"TooManyRequests", "TranscriptsDisabled"}

TranslateErrors == {"NotTranslatable", "TooManyRequests"}

\* The upstream stub of one request's listing calls: it answers
\* TooManyRequests on the first rate_limited attempts and `then` afterwards.
Stubs == [rate_limited : 0..MaxRateLimited, then : {"ok"} \cup ListingErrors]

NoStub == [rate_limited |-> 0, then |-> "none"]

StubAnswer(s, attempt) ==
    IF attempt <= s.rate_limited THEN "TooManyRequests" ELSE s.then

\* One upstream call of a request: the stage of the handler that made it, the
\* library operation, its arguments, and how it ended.
Call(stage, op, id, source, target, outcome, transcript) ==
    [stage |-> stage, op |-> op, video_id |-> id, source |-> source,
     target |-> target, outcome |-> outcome, transcript |-> transcript]

(***************************************************************************)
(* Exceptions and responses                                                *)
(*                                                                         *)
(* A message is a sequence of string tokens.  str() of a library exception *)
(* is one token naming it; str() of an HTTPException is its status code    *)
(* followed by its detail (starlette's HTTPException.__str__).             *)
(* HTTPException derives from Exception, so the handlers' own "except      *)
(* Exception" clauses catch the HTTPExceptions raised inside their try.    *)
(***************************************************************************)
HTTPException(status_code, detail) ==
    [type |-> "HTTPException", status_code |-> status_code, detail |-> detail]

\* A library exception in flight.
Raised(kind) == [type |-> kind, status_code |-> 0, detail |-> <<>>]

StatusText(status_code) == IF status_code = 429 THEN "429" ELSE "400"

Str(e) ==
    IF e.type = "HTTPException"
    THEN <<StatusText(e.status_code), ": ">> \o e.detail
    ELSE <<e.type>>

InvalidIdMessage == <<"Invalid video ID format. Please provide a valid YouTube video ID (11 characters, alphanumeric with - and _)">>

UnavailableMessage == <<"Video is unavailable. It might be private or doesn't exist.">>

RateLimitMessage == <<"YouTube is rate limiting requests. Please try again in a few minutes.">>

DisabledMessage == <<"Transcripts are disabled for this video. Please try a different video that has captions enabled.">>

\* One except clause for every listing failure, without the exception's text.
ListingHandlerNoReason(e) == HTTPException(400, <<"Could not access video transcripts">>)

\* The except clauses of the listing call (lines 108-122 and 203-217).
ListingHandler(e) ==
    IF e.type = "VideoUnavailable" THEN HTTPException(400, UnavailableMessage)
    ELSE IF e.type = "TooManyRequests" THEN HTTPException(429, RateLimitMessage)
    ELSE HTTPException(400, <<"Could not access video transcripts: ">> \o Str(e))

\* The except clause of the last fallback (lines 166-170).
FallbackHandler(e) ==
    HTTPException(400, <<"Could not get or translate transcript: ">> \o Str(e))

\* The outermost except clauses of get_transcript (lines 172-181).
TranscriptOuterHandler(e) ==
    IF e.type = "TranscriptsDisabled" THEN HTTPException(400, DisabledMessage)
    ELSE HTTPException(400, <<"Error processing request: ">> \o Str(e))

\* The outermost except clause of get_available_languages (lines 254-258).
LanguagesOuterHandler(e) ==
    HTTPException(400, <<"Error fetching languages: ">> \o Str(e))

OuterHandler(ep, e) ==
    IF ep = "transcript" THEN TranscriptOuterHandler(e) ELSE LanguagesOuterHandler(e)

\* f"{t.language_code} ({t.language})"
Label(t) == t.language_code \o <<" (", t.language, ")">>

\* ', '.join(labels)
RECURSIVE Join(_)
Join(labels) ==
    IF labels = <<>> THEN <<>>
    ELSE IF Len(labels) = 1 THEN Head(labels)
    ELSE Head(labels) \o <<", ">> \o Join(Tail(labels))

\* available_langs without the second loop.
ManualLangsOnly(tl) == [i \in DOMAIN tl.manual |-> Label(tl.manual[i])]

\* available_langs of lines 156-160.
AvailableLangs(tl) ==
    [i \in DOMAIN tl.manual |-> Label(tl.manual[i])]
        \o [i \in DOMAIN tl.generated |-> Label(tl.generated[i])]

\* The detail of lines 162-165.
NoTranscriptMessage(lang, tl) ==
    <<"No transcripts available in ">> \o lang \o <<". Available languages: ">>
        \o (IF AvailableLangs(tl) # <<>> THEN Join(AvailableLangs(tl)) ELSE <<"none">>)

NoLanguages == [manual |-> <<>>, generated |-> <<>>, translatable |-> <<>>, video_id |-> <<>>]

NoResponse ==
    [status_code |-> 0, transcript |-> <<>>, languages |-> NoLanguages, detail |-> <<>>]

\* A returned transcript (status 200).
TranscriptResponse(t) ==
    [status_code |-> 200, transcript |-> t, languages |-> NoLanguages, detail |-> <<>>]

\* The returned languages dict (status 200).
LanguagesResponse(l) ==
    [status_code |-> 200, transcript |-> <<>>, languages |-> l, detail |-> <<>>]

\* A handler that swallows the exception and answers an empty transcript.
EmptySuccess(e) == TranscriptResponse(<<>>)

\* An HTTPException that left the handler.
ErrorResponse(e) ==
    [status_code |-> e.status_code, transcript |-> <<>>, languages |-> NoLanguages,
     detail |-> e.detail]

(***************************************************************************)
(* Inputs                                                                  *)
(***************************************************************************)
ID1 == <<"P", "M", "t", "l", "I", "B", "t", "q", "N", "J", "o">>

ID2 == <<"a", "_", "b", "-", "c", "_", "d", "-", "e", "_", "1">>

\* Raw video_id arguments: bare ids, URL forms, timestamp fragments, and
\* malformed ones (short, long, a character outside the class, newlines).
RawInputs ==
    { ID1,
      <<"/">> \o ID1 \o <<"?", "x">>,
      <<"?", "v", "=">> \o ID2 \o <<"&", "t", "=", "5", "s">>,
      ID2 \o <<NEWLINE>>,
      SubSeq(ID1, 1, ID_LENGTH - 1),
      ID1 \o <<"x">>,
      ID1 \o <<"!">>,
      ID2 \o <<NEWLINE, NEWLINE>>,
      <<"&", "t", "=">> \o ID1,
      <<>> }

RequestedLanguages == {TH, EN}

\* translation_languages of a track, as the upstream reports it.
TranslationLanguageLists == {<<>>, <<EN, TH>>}

\* Seconds the clock can jump between two steps: just short of the cache
\* lifetime, and the cache lifetime.
ClockSteps == {CACHE_DURATION - 1, CACHE_DURATION}

(***************************************************************************)
(* Initial state: the module has been imported, no request was made        *)
(***************************************************************************)
Init ==
    /\ transcript_cache = <<>>
    /\ now = 0
    /\ ticks = 0
    /\ served = 0
    /\ pc = "idle"
    /\ endpoint = "none"
    /\ video_id = <<>>
    /\ language = <<>>
    /\ clean_video_id = <<>>
    /\ transcript_list = NoCatalog
    /\ stub = NoStub
    /\ calls = <<>>
    /\ sleeps = <<>>
    /\ cache_ops = <<>>
    /\ response = NoResponse

(***************************************************************************)
(* The clock                                                               *)
(***************************************************************************)
\* time.time() is read at lines 57 and 69 only, so an advance of the clock is
\* taken right before the read that sees it: before the cache lookup (the
\* time since the previous request) and before the listing (the time until
\* the cache write).
Tick ==
    /\ ticks < MaxTicks
    /\ pc \in {"cache_lookup", "sleep"}
    /\ \E d \in ClockSteps : now' = now + d
    /\ ticks' = ticks + 1
    /\ UNCHANGED <<transcript_cache, served, pc, endpoint, video_id, language,
                   clean_video_id, transcript_list, stub, calls, sleeps, cache_ops,
                   response>>

(***************************************************************************)
(* Steps shared by both handlers                                           *)
(***************************************************************************)
\* The event loop starts a handler: lines 88 and 189.
Receive(ep, raw, lang) ==
    /\ pc \in {"idle", "done"}
    /\ served < MaxRequests
    /\ served' = served + 1
    /\ endpoint' = ep
    /\ video_id' = raw
    /\ language' = lang
    /\ clean_video_id' = extract_video_id(raw)
    /\ pc' = "validate"
    /\ transcript_list' = NoCatalog
    /\ stub' = NoStub
    /\ calls' = <<>>
    /\ sleeps' = <<>>
    /\ cache_ops' = <<>>
    /\ response' = NoResponse
    /\ UNCHANGED <<transcript_cache, now, ticks>>

ReceiveTranscript == \E raw \in RawInputs, lang \in RequestedLanguages :
    Receive("transcript", raw, lang)

ReceiveLanguages == \E raw \in RawInputs : Receive("languages", raw, <<>>)

\* Both handlers looking into the cache after the validation.
AlwaysLookup(ep) == "cache_lookup"

\* What follows the validation: get_transcript looks into the cache (line
\* 98), get_available_languages goes straight to its sleep (line 199).
AfterValidation(ep) == IF ep = "transcript" THEN "cache_lookup" ELSE "sleep"

\* Lines 91-95 and 192-196.
Validate ==
    /\ pc = "validate"
    /\ IF validate_video_id(clean_video_id)
       THEN /\ pc' = AfterValidation(endpoint)
            /\ UNCHANGED response
       ELSE /\ pc' = "done"
            /\ response' = ErrorResponse(OuterHandler(endpoint,
                               HTTPException(400, InvalidIdMessage)))
    /\ UNCHANGED <<transcript_cache, now, ticks, served, endpoint, video_id, language,
                   clean_video_id, transcript_list, stub, calls, sleeps, cache_ops>>

\* Lines 103 and 199: time.sleep(RETRY_DELAY).
Sleep ==
    /\ pc = "sleep"
    /\ now' = now + RETRY_DELAY
    /\ sleeps' = Append(sleeps, RETRY_DELAY)
    /\ pc' = "list_transcripts"
    /\ UNCHANGED <<transcript_cache, ticks, served, endpoint, video_id, language,
                   clean_video_id, transcript_list, stub, calls, cache_ops, response>>

ListAttempts == Cardinality({i \in DOMAIN calls : calls[i].op = "list_transcripts"})

\* A handler that goes back to its sleep whenever the listing is rate limited.
RetryWhenRateLimited(kind, attempt) ==
    IF kind = "TooManyRequests" THEN "sleep" ELSE "done"

\* Where a handler continues after its listing call raised: every except
\* clause raises an HTTPException, which leaves the handler.
AfterListingFailure(kind, attempt) == "done"

\* Lines 106-122 and 201-217: YouTubeTranscriptApi.list_transcripts.
ListTranscripts ==
    /\ pc = "list_transcripts"
    /\ \E s \in (IF ListAttempts = 0 THEN Stubs ELSE {stub}) :
        LET attempt == ListAttempts + 1
            answer == StubAnswer(s, attempt)
        IN  /\ stub' = s
            /\ calls' = Append(calls, Call("list", "list_transcripts", clean_video_id,
                                            <<>>, <<>>, answer, <<>>))
            /\ IF answer = "ok"
               THEN /\ \E catalog \in Catalogs : transcript_list' = catalog
                    /\ pc' = IF endpoint = "transcript" THEN "fetch_direct"
                                                        ELSE "build_languages"
                    /\ UNCHANGED response
               ELSE /\ pc' = AfterListingFailure(answer, attempt)
                    /\ response' = ErrorResponse(OuterHandler(endpoint,
                                       ListingHandler(Raised(answer))))
                    /\ UNCHANGED transcript_list
    /\ UNCHANGED <<transcript_cache, now, ticks, served, endpoint, video_id, language,
                   clean_video_id, sleeps, cache_ops>>

(***************************************************************************)
(* get_transcript                                                          *)
(***************************************************************************)
\* Lines 98-100.
CacheLookup ==
    /\ pc = "cache_lookup"
    /\ LET cached_transcript ==
               get_cached_transcript(transcript_cache, clean_video_id, language, now)
       IN  /\ transcript_cache' =
                  CacheAfterGet(transcript_cache, clean_video_id, language, now)
           /\ cache_ops' = Append(cache_ops,
                  [op |-> "get", key |-> CacheKey(clean_video_id, language),
                   value |-> cached_transcript])
           /\ IF Truthy(cached_transcript)
              THEN /\ response' = TranscriptResponse(cached_transcript.transcript)
                   /\ pc' = "done"
              ELSE /\ pc' = "sleep"
                   /\ UNCHANGED response
    /\ UNCHANGED <<now, ticks, served, endpoint, video_id, language, clean_video_id,
                   transcript_list, stub, calls, sleeps>>

\* cache_transcript(clean_video_id, language, result); return result
\* (lines 128-129, 137-138 and 152-153).
CacheAndReturn(result) ==
    /\ transcript_cache' =
           cache_transcript(transcript_cache, clean_video_id, language, result, now)
    /\ cache_ops' = Append(cache_ops,
           [op |-> "put", key |-> CacheKey(clean_video_id, language),
            value |-> Some(result)])
    /\ response' = TranscriptResponse(result)
    /\ pc' = "done"

\* Lines 125-130: the requested language directly.
FetchDirect ==
    /\ pc = "fetch_direct"
    /\ LET transcript == find_transcript(transcript_list, language)
       IN  IF transcript = NoTrack
           THEN /\ calls' = Append(calls, Call("direct", "fetch", clean_video_id, language,
                                               language, "NoTranscriptFound", <<>>))
                /\ pc' = "translate_en"
                /\ UNCHANGED <<transcript_cache, cache_ops, response>>
           ELSE \/ \E result \in Fetched(language, language) :
                     /\ calls' = Append(calls, Call("direct", "fetch", clean_video_id, language,
                                                    language, "ok", result))
                     /\ CacheAndReturn(result)
                \/ \E e \in FetchErrors :
                     /\ calls' = Append(calls, Call("direct", "fetch", clean_video_id, language,
                                                    language, e, <<>>))
                     /\ response' = ErrorResponse(TranscriptOuterHandler(Raised(e)))
                     /\ pc' = "done"
                     /\ UNCHANGED <<transcript_cache, cache_ops>>
    /\ UNCHANGED <<now, ticks, served, endpoint, video_id, language, clean_video_id,
                   transcript_list, stub, sleeps>>

\* Another language code at line 134.
WrongDefaultSource == JA

\* The language code of line 134.
DefaultSource == EN

\* Lines 132-139: the English track, translated.
TranslateEnglish ==
    /\ pc = "translate_en"
    /\ LET transcript == find_transcript(transcript_list, DefaultSource)
       IN  IF transcript = NoTrack
           THEN /\ calls' = Append(calls, Call("english", "translate", clean_video_id, DefaultSource,
                                               language, "NoTranscriptFound", <<>>))
                /\ pc' = "translate_any"
                /\ UNCHANGED <<transcript_cache, cache_ops, response>>
           ELSE \/ \E result \in Fetched(DefaultSource, language) :
                     /\ calls' = Append(calls, Call("english", "translate", clean_video_id, DefaultSource,
                                                    language, "ok", result))
                     /\ CacheAndReturn(result)
                \/ \E e \in TranslateErrors :
                     /\ calls' = Append(calls, Call("english", "translate", clean_video_id, DefaultSource,
                                                    language, e, <<>>))
                     /\ pc' = "translate_any"
                     /\ UNCHANGED <<transcript_cache, cache_ops, response>>
    /\ UNCHANGED <<now, ticks, served, endpoint, video_id, language, clean_video_id,
                   transcript_list, stub, sleeps>>

\* available_transcripts[-1].
LastAvailable(available_transcripts) == available_transcripts[Len(available_transcripts)]

\* Line 148: available_transcripts[0].
FirstAvailable(available_transcripts) == available_transcripts[1]

\* Lines 141-170: the first manually created track, translated; without one,
\* the error that lists the available languages.
TranslateAny ==
    /\ pc = "translate_any"
    /\ LET available_transcripts == transcript_list.manual
       IN  IF available_transcripts # <<>>
           THEN LET available == FirstAvailable(available_transcripts)
                IN  \/ \E result \in Fetched(available.language_code, language) :
                          /\ calls' = Append(calls, Call("any", "translate", clean_video_id,
                                 available.language_code, language, "ok", result))
                          /\ CacheAndReturn(result)
                    \/ \E e \in TranslateErrors :
                          /\ calls' = Append(calls, Call("any", "translate", clean_video_id,
                                 available.language_code, language, e, <<>>))
                          /\ response' = ErrorResponse(TranscriptOuterHandler(
                                             FallbackHandler(Raised(e))))
                          /\ pc' = "done"
                          /\ UNCHANGED <<transcript_cache, cache_ops>>
           ELSE /\ response' = ErrorResponse(TranscriptOuterHandler(FallbackHandler(
                       HTTPException(400, NoTranscriptMessage(language, transcript_list)))))
                /\ pc' = "done"
                /\ UNCHANGED <<transcript_cache, cache_ops, calls>>
    /\ UNCHANGED <<now, ticks, served, endpoint, video_id, language, clean_video_id,
                   transcript_list, stub, sleeps>>

(***************************************************************************)
(* get_available_languages                                                 *)
(***************************************************************************)
\* {"language": transcript.language, "code": transcript.language_code}
LanguageItems(tracks) ==
    [i \in DOMAIN tracks |->
        [language |-> tracks[i].language, code |-> tracks[i].language_code]]

\* Lines 219-253.
BuildLanguages ==
    /\ pc = "build_languages"
    /\ \E translation_languages \in TranslationLanguageLists :
        response' = LanguagesResponse(
            [manual |-> LanguageItems(transcript_list.manual),
             generated |-> LanguageItems(transcript_list.generated),
             translatable |-> IF transcript_list.manual # <<>>
                              THEN translation_languages ELSE <<>>,
             video_id |-> clean_video_id])
    /\ pc' = "done"
    /\ UNCHANGED <<transcript_cache, now, ticks, served, endpoint, video_id, language,
                   clean_video_id, transcript_list, stub, calls, sleeps, cache_ops>>

(***************************************************************************)
(* The service                                                             *)
(***************************************************************************)
Next ==
    \/ Tick
    \/ ReceiveTranscript
    \/ ReceiveLanguages
    \/ Validate
    \/ CacheLookup
    \/ Sleep
    \/ ListTranscripts
    \/ FetchDirect
    \/ TranslateEnglish
    \/ TranslateAny
    \/ BuildLanguages

Spec == Init /\ [][Next]_vars

(***************************************************************************)
(* validate_video_id alone                                                 *)
(***************************************************************************)
\* Characters outside [0-9A-Za-z_-].
OutsideChars == {"!", " ", "/", NEWLINE}

\* Strings handed to validate_video_id: the two identifiers, each with one
\* character replaced by one outside the class, with one character added in
\* front or behind, cut short, and followed by two newlines.
Candidates ==
    LET ids == {ID1, ID2}
    IN  ids
        \cup {[id EXCEPT ![i] = c] : id \in ids, i \in 1..ID_LENGTH, c \in OutsideChars}
        \cup {id \o <<c>> : id \in ids, c \in OutsideChars \cup {"x"}}
        \cup {<<c>> \o id : id \in ids, c \in OutsideChars \cup {"x"}}
        \cup {SubSeq(id, 1, k) : id \in ids, k \in 0..(ID_LENGTH - 1)}
        \cup {id \o <<NEWLINE, NEWLINE>> : id \in ids}

\* The handler stands right before its test of line 91, with any candidate.
ValidatorInit ==
    /\ transcript_cache = <<>>
    /\ now = 0
    /\ ticks = 0
    /\ served = 1
    /\ pc = "validate"
    /\ endpoint = "transcript"
    /\ video_id \in Candidates
    /\ language = TH
    /\ clean_video_id = video_id
    /\ transcript_list = NoCatalog
    /\ stub = NoStub
    /\ calls = <<>>
    /\ sleeps = <<>>
    /\ cache_ops = <<>>
    /\ response = NoResponse

ValidatorNext == Validate

ValidatorSpec == ValidatorInit /\ [][ValidatorNext]_vars

(***************************************************************************)
(* extract_video_id alone                                                  *)
(***************************************************************************)
\* Raw arguments of extract_video_id: nothing, "v=", "/" or a URL head in
\* front of a body (an identifier, one too short, one too long, nothing),
\* followed by nothing, one or two timestamp fragments, a newline, a
\* character outside the class, or a further parameter holding a second
\* identifier.
NormalizerInputs ==
    LET heads == {<<>>, <<"v", "=">>, <<"/">>, <<"w", "/", "?", "v", "=">>}
        bodies == {ID1, ID2, SubSeq(ID1, 1, ID_LENGTH - 1), ID1 \o <<"x">>, <<>>}
        tails == {<<>>,
                  <<"&", "t", "=", "5">>,
                  <<"&", "t", "=", "1", "&", "t", "=", "2">>,
                  <<NEWLINE>>,
                  <<"!">>,
                  <<"&", "l", "=", "/">> \o ID2}
    IN  {h \o b \o t : h \in heads, b \in bodies, t \in tails}

\* Before the call of extract_video_id, with any raw argument.
NormalizerInit ==
    /\ transcript_cache = <<>>
    /\ now = 0
    /\ ticks = 0
    /\ served = 0
    /\ pc = "raw"
    /\ endpoint = "none"
    /\ video_id \in NormalizerInputs
    /\ language = <<>>
    /\ clean_video_id = <<>>
    /\ transcript_list = NoCatalog
    /\ stub = NoStub
    /\ calls = <<>>
    /\ sleeps = <<>>
    /\ cache_ops = <<>>
    /\ response = NoResponse

\* clean_video_id = extract_video_id(video_id)
Normalize ==
    /\ pc = "raw"
    /\ clean_video_id' = extract_video_id(video_id)
    /\ pc' = "once"
    /\ UNCHANGED <<transcript_cache, now, ticks, served, endpoint, video_id, language,
                   transcript_list, stub, calls, sleeps, cache_ops, response>>

\* The result is handed to extract_video_id again.
Renormalize ==
    /\ pc = "once"
    /\ video_id' = clean_video_id
    /\ clean_video_id' = extract_video_id(clean_video_id)
    /\ pc' = "twice"
    /\ UNCHANGED <<transcript_cache, now, ticks, served, endpoint, language,
                   transcript_list, stub, calls, sleeps, cache_ops, response>>

NormalizerNext ==
    \/ Normalize
    \/ Renormalize

NormalizerSpec == NormalizerInit /\ [][NormalizerNext]_vars

(***************************************************************************)
(* Vocabulary of the properties                                            *)
(***************************************************************************)
\* The running get_transcript request missed the cache and listed a catalog.
Listed ==
    /\ endpoint = "transcript"
    /\ calls # <<>>
    /\ calls[1].stage = "list"
    /\ calls[1].outcome = "ok"

AllTracks == Range(transcript_list.manual) \cup Range(transcript_list.generated)

HasTrackIn(code) == \E t \in AllTracks : t.language_code = code

Contains(text, part) == Find(text, part) > 0

Succeeded(i) == i \in DOMAIN calls /\ calls[i].stage # "list" /\ calls[i].outcome = "ok"

\* The caller received the transcript t.
Returned(t) ==
    /\ pc = "done"
    /\ response.status_code = 200
    /\ response.transcript = t

Failed == pc = "done" /\ response.status_code >= 400

StageCalls(stage) == {i \in DOMAIN calls : calls[i].stage = stage}

StageOrder == <<"list", "direct", "english", "any">>

WellFormedId(id) == Len(id) = 11 /\ \A i \in DOMAIN id : id[i] \in IdChars

(***************************************************************************)
(* C1: when the listed catalog has a track in the requested language, no   *)
(* translation is ever requested during that request, and a successful     *)
(* direct fetch ends the request with exactly the fetched transcript.      *)
(***************************************************************************)
C1_DirectMatchNoTranslation ==
    (Listed /\ HasTrackIn(language)) =>
        /\ \A i \in DOMAIN calls : calls[i].op # "translate"
        /\ \A i \in DOMAIN calls :
              Succeeded(i) =>
                  /\ calls[i].op = "fetch"
                  /\ calls[i].source = language
                  /\ Returned(calls[i].transcript)

C1_Witness ==
    /\ Listed
    /\ language = TH
    /\ HasTrackIn(TH)
    /\ HasTrackIn(EN)
    /\ transcript_list.manual # <<>>
    /\ Len(calls) = 2
    /\ Returned(<<Segment(TH, TH)>>)

(***************************************************************************)
(* C2: when the listed catalog has no track in the requested language but  *)
(* has an English one, the handler asks for the translation of the English *)
(* track into the requested language, and when that succeeds the caller    *)
(* receives its result.                                                    *)
(***************************************************************************)
C2_EnglishFallback ==
    (Listed /\ ~HasTrackIn(language) /\ HasTrackIn(EN) /\ pc \in {"translate_any", "done"}) =>
        /\ Len(calls) >= 3
        /\ calls[3].op = "translate"
        /\ calls[3].source = EN
        /\ calls[3].target = language
        /\ calls[3].outcome # "NoTranscriptFound"
        /\ calls[3].outcome = "ok" => Returned(calls[3].transcript)

C2_Witness ==
    /\ Listed
    /\ language = TH
    /\ ~HasTrackIn(TH)
    /\ \E t \in Range(transcript_list.manual) : t.language_code = EN
    /\ Len(calls) = 3
    /\ Returned(<<Segment(EN, TH)>>)

(***************************************************************************)
(* C3: the upstream stages of one get_transcript request happen in the     *)
(* order listing, direct fetch, translation from English, translation from *)
(* the first manually created track; each at most once, each only after    *)
(* the one before it failed (the listing: succeeded), and the first        *)
(* success ends the request with that stage's transcript.                  *)
(***************************************************************************)
C3_StrictStageOrder ==
    endpoint = "transcript" =>
        /\ Len(calls) <= Len(StageOrder)
        /\ \A i \in DOMAIN calls : calls[i].stage = StageOrder[i]
        /\ Len(calls) >= 2 => calls[1].outcome = "ok"
        /\ \A i \in DOMAIN calls : (1 < i /\ i < Len(calls)) => calls[i].outcome # "ok"
        /\ \A i \in DOMAIN calls :
              /\ i = 2 => calls[i].op = "fetch" /\ calls[i].source = language
              /\ i = 3 => /\ calls[i].op = "translate"
                          /\ calls[i].source = EN
                          /\ calls[i].target = language
              /\ i = 4 => /\ calls[i].op = "translate"
                          /\ transcript_list.manual # <<>>
                          /\ calls[i].source = transcript_list.manual[1].language_code
                          /\ calls[i].target = language
        /\ \A i \in DOMAIN calls : Succeeded(i) => Returned(calls[i].transcript)

C3_Witness ==
    /\ endpoint = "transcript"
    /\ Len(calls) = 4
    /\ Len(transcript_list.manual) = 2
    /\ transcript_list.manual[1].language_code = JA
    /\ transcript_list.manual[2].language_code = EN
    /\ calls[3].outcome = "NotTranslatable"
    /\ Returned(<<Segment(JA, language)>>)

(***************************************************************************)
(* C4: with no manually created track, no track in the requested language  *)
(* and no successful translation from English, the request fails and the   *)
(* detail the caller receives names the language code of every generated   *)
(* track of the catalog.                                                   *)
(***************************************************************************)
C4_ExhaustionListsGenerated ==
    ( /\ pc = "done"
      /\ Listed
      /\ transcript_list.manual = <<>>
      /\ ~HasTrackIn(language)
      /\ ~\E i \in StageCalls("english") : calls[i].outcome = "ok" ) =>
        /\ Failed
        /\ \A g \in Range(transcript_list.generated) :
              Contains(response.detail, g.language_code)

C4_Witness ==
    /\ pc = "done"
    /\ Listed
    /\ language = TH
    /\ transcript_list.manual = <<>>
    /\ Len(transcript_list.generated) = 2
    /\ HasTrackIn(EN)
    /\ HasTrackIn(JA)
    /\ Failed
    /\ Contains(response.detail, EN)
    /\ Contains(response.detail, JA)

(***************************************************************************)
(* C5: when the catalog has a manually created track and the translation   *)
(* of the first one fails, the request fails with a detail that names      *)
(* every language code and display name of the catalog.                    *)
(***************************************************************************)
C5_FinalFailureListsCatalog ==
    ( /\ pc = "done"
      /\ Listed
      /\ transcript_list.manual # <<>>
      /\ \E i \in StageCalls("any") : calls[i].outcome # "ok" ) =>
        /\ Failed
        /\ \A t \in AllTracks :
              /\ Contains(response.detail, t.language_code)
              /\ Contains(response.detail, <<t.language>>)

(***************************************************************************)
(* C6: when the upstream answers the listing with RateLimited twice and    *)
(* would succeed on the third attempt, the request makes that third        *)
(* attempt and gets its catalog, having slept RETRY_DELAY*1 and then       *)
(* RETRY_DELAY*2 between the attempts.                                     *)
(***************************************************************************)
C6_RetryThenSucceed ==
    (pc = "done" /\ stub = [rate_limited |-> 2, then |-> "ok"]) =>
        /\ Cardinality(StageCalls("list")) = 3
        /\ \E i \in StageCalls("list") : calls[i].outcome = "ok"
        /\ Contains(sleeps, <<RETRY_DELAY * 1, RETRY_DELAY * 2>>)

(***************************************************************************)
(* C7: no upstream operation of a request is attempted more than           *)
(* MAX_RETRIES (3) times; an operation is attempted again only after a     *)
(* RateLimited answer, never after another failure; and when the upstream  *)
(* rate-limits the listing on each of its first three attempts, the        *)
(* request ends in the rate-limit error without a fourth attempt.          *)
(***************************************************************************)
C7_BoundedRetries ==
    LET MAX_RETRIES == 3
    IN  /\ \A i \in DOMAIN calls :
              Cardinality(StageCalls(calls[i].stage)) <= MAX_RETRIES
        /\ \A i, j \in DOMAIN calls :
              (i < j /\ calls[i].stage = calls[j].stage) =>
                  calls[i].outcome = "TooManyRequests"
        /\ ( /\ pc = "done"
             /\ calls # <<>>
             /\ \A n \in 1..MAX_RETRIES : StubAnswer(stub, n) = "TooManyRequests" ) =>
                /\ Cardinality(StageCalls("list")) <= MAX_RETRIES
                /\ Failed
                /\ Contains(response.detail, RateLimitMessage)

C7_Witness ==
    /\ pc = "done"
    /\ stub = [rate_limited |-> 2, then |-> "TooManyRequests"]
    /\ Cardinality(StageCalls("list")) = 1
    /\ Failed
    /\ Contains(response.detail, RateLimitMessage)

(***************************************************************************)
(* C8: for both endpoints, a request whose listing ended in the rate-limit *)
(* failure is answered with status 429, and every other failed request     *)
(* with status 400.                                                        *)
(***************************************************************************)
C8_RateLimitStatus ==
    LET rate_limited ==
            /\ calls # <<>>
            /\ calls[Len(calls)].stage = "list"
            /\ calls[Len(calls)].outcome = "TooManyRequests"
    IN  Failed => response.status_code = (IF rate_limited THEN 429 ELSE 400)

(***************************************************************************)
(* C9: the candidate that is validated is the normalised input; a request  *)
(* whose candidate is not 11 characters of [0-9A-Za-z_-] is rejected with  *)
(* the invalid-identifier error without any upstream call, sleep, cache    *)
(* read or cache write; and every identifier passed upstream or used in a  *)
(* cache key is 11 characters of [0-9A-Za-z_-].                            *)
(***************************************************************************)
C9_InvalidIdNeverLeaves ==
    /\ pc # "idle" => clean_video_id = extract_video_id(video_id)
    /\ (pc # "idle" /\ ~WellFormedId(clean_video_id)) =>
          /\ calls = <<>>
          /\ sleeps = <<>>
          /\ cache_ops = <<>>
          /\ pc \in {"validate", "done"}
          /\ pc = "done" => Failed /\ Contains(response.detail, InvalidIdMessage)
    /\ \A i \in DOMAIN calls : WellFormedId(calls[i].video_id)
    /\ \A i \in DOMAIN cache_ops :
          \E lang \in RequestedLanguages :
              /\ cache_ops[i].key = clean_video_id \o <<"_">> \o lang
              /\ WellFormedId(clean_video_id)
    /\ \A k \in DOMAIN transcript_cache :
          /\ Len(k) > 12
          /\ WellFormedId(SubSeq(k, 1, 11))
          /\ k[12] = "_"
          /\ SubSeq(k, 13, Len(k)) \in RequestedLanguages

C9_Witness ==
    /\ pc = "done"
    /\ endpoint = "transcript"
    /\ video_id = ID2 \o <<NEWLINE, NEWLINE>>
    /\ transcript_cache # <<>>
    /\ calls = <<>>
    /\ sleeps = <<>>
    /\ cache_ops = <<>>
    /\ Failed
    /\ Contains(response.detail, InvalidIdMessage)

(***************************************************************************)
(* C10: right after cache_transcript(id, lang, T) a lookup of (id, lang)   *)
(* returns T; a lookup returns the stored transcript exactly when an entry *)
(* exists and is younger than CACHE_DURATION (3600 s), and otherwise       *)
(* returns None and leaves no entry under that key, all other entries      *)
(* being untouched.                                                        *)
(***************************************************************************)
C10_PutThenGet ==
    (pc = "done" /\ cache_ops # <<>> /\ cache_ops[Len(cache_ops)].op = "put") =>
        /\ get_cached_transcript(transcript_cache, clean_video_id, language, now)
              = [is_none |-> FALSE, transcript |-> response.transcript]
        /\ cache_ops[Len(cache_ops)].value
              = [is_none |-> FALSE, transcript |-> response.transcript]

C10_GetStep ==
    (pc = "cache_lookup" /\ pc' # "cache_lookup") =>
        LET key == clean_video_id \o <<"_">> \o language
            got == cache_ops'[Len(cache_ops')].value
            live == /\ key \in DOMAIN transcript_cache
                    /\ now - transcript_cache[key].timestamp < 3600
        IN  /\ cache_ops'[Len(cache_ops')].op = "get"
            /\ live => /\ got = [is_none |-> FALSE,
                                 transcript |-> transcript_cache[key].transcript]
                       /\ transcript_cache' = transcript_cache
            /\ ~live => /\ got.is_none
                        /\ key \notin DOMAIN transcript_cache'
                        /\ DOMAIN transcript_cache' = DOMAIN transcript_cache \ {key}
                        /\ \A k \in DOMAIN transcript_cache' :
                              transcript_cache'[k] = transcript_cache[k]

C10_CacheRoundTrip == [](C10_PutThenGet) /\ [][C10_GetStep]_vars

\* A lookup that hits an entry one second short of its lifetime.
C10_Witness ==
    /\ pc = "done"
    /\ Len(cache_ops) = 1
    /\ cache_ops[1].op = "get"
    /\ cache_ops[1].key \in DOMAIN transcript_cache
    /\ now - transcript_cache[cache_ops[1].key].timestamp = CACHE_DURATION - 1
    /\ Returned(transcript_cache[cache_ops[1].key].transcript)

(***************************************************************************)
(* C11: whenever a get_transcript request looks up a key under which the   *)
(* cache holds an entry younger than CACHE_DURATION, whatever its payload  *)
(* (a transcript of zero segments included), the request ends at once with *)
(* that payload: no sleep, no listing, no fetch and no translation.        *)
(***************************************************************************)
C11_HitShortCircuits ==
    ( /\ endpoint = "transcript"
      /\ cache_ops # <<>>
      /\ cache_ops[1].op = "get"
      /\ ~cache_ops[1].value.is_none ) =>
        /\ Returned(cache_ops[1].value.transcript)
        /\ calls = <<>>
        /\ sleeps = <<>>

(***************************************************************************)
(* C12: every request terminates, in exactly one of two ways: a success    *)
(* that carries the transcript of the stage that succeeded (or of the      *)
(* cache hit), or an error with a non-empty diagnostic.  A request whose   *)
(* stages all failed never ends in a success, and no request is left       *)
(* without a result: a running handler always has a next step, and every   *)
(* step moves it forward in the order of the stages.                       *)
(***************************************************************************)
HandlerStep ==
    \/ Validate
    \/ CacheLookup
    \/ Sleep
    \/ ListTranscripts
    \/ FetchDirect
    \/ TranslateEnglish
    \/ TranslateAny
    \/ BuildLanguages

PcRank(p) ==
    CASE p = "idle" -> 0
      [] p = "validate" -> 1
      [] p = "cache_lookup" -> 2
      [] p = "sleep" -> 3
      [] p = "list_transcripts" -> 4
      [] p = "fetch_direct" -> 5
      [] p = "build_languages" -> 5
      [] p = "translate_en" -> 6
      [] p = "translate_any" -> 7
      [] p = "done" -> 8

C12_Outcome ==
    (pc = "done" /\ endpoint = "transcript") =>
        LET hit == /\ calls = <<>>
                   /\ cache_ops # <<>>
                   /\ cache_ops[1].op = "get"
                   /\ Truthy(cache_ops[1].value)
            won == {i \in DOMAIN calls : Succeeded(i)}
        IN  \/ /\ response.status_code = 200
               /\ response.detail = <<>>
               /\ \/ hit /\ response.transcript = cache_ops[1].value.transcript
                  \/ \E i \in won : /\ i = Len(calls)
                                    /\ response.transcript = calls[i].transcript
            \/ /\ response.status_code >= 400
               /\ response.detail # <<>>
               /\ response.transcript = <<>>
               /\ won = {}
               /\ ~hit

C12_Progress == pc \notin {"idle", "done"} => ENABLED HandlerStep

C12_Step ==
    pc \notin {"idle", "done"} =>
        \/ PcRank(pc') > PcRank(pc)
        \/ pc' = pc /\ ticks' = ticks + 1

C12_AlwaysOneOutcome == [](C12_Outcome /\ C12_Progress) /\ [][C12_Step]_vars

\* All four stages were tried, the last three failed, the caller got an error.
C12_Witness ==
    /\ pc = "done"
    /\ endpoint = "transcript"
    /\ Len(calls) = 4
    /\ \A i \in DOMAIN calls : ~Succeeded(i)
    /\ Failed
    /\ response.detail # <<>>

(***************************************************************************)
(* C13: for every string x, newlines and other characters outside the      *)
(* class included, validate_video_id accepts x exactly when x is 11        *)
(* characters long and each of them is in [0-9A-Za-z_-].                   *)
(***************************************************************************)
C13_ValidateExact ==
    pc # "validate" => ((pc # "done") <=> WellFormedId(clean_video_id))

(***************************************************************************)
(* C14: extract_video_id is idempotent.  For every raw input (a bare       *)
(* identifier, a URL with v=<id> or /<id>, with or without "&t=" parts, or *)
(* a text that matches nothing) normalising the result again gives the     *)
(* same result; and a string of 11 characters of [0-9A-Za-z_-] is its own  *)
(* normal form.                                                            *)
(***************************************************************************)
C14_NormalizeIdempotent ==
    /\ (pc = "raw" /\ WellFormedId(video_id)) => extract_video_id(video_id) = video_id
    /\ (pc = "once" /\ WellFormedId(video_id)) => clean_video_id = video_id
    /\ pc = "twice" => clean_video_id = video_id

\* A URL with two timestamp fragments was normalised twice to its identifier.
C14_Witness ==
    /\ pc = "twice"
    /\ video_id = ID2
    /\ clean_video_id = ID2

\* A text that matches no pattern came back unchanged, twice.
C14_WitnessUnmatched ==
    /\ pc = "twice"
    /\ ~WellFormedId(video_id)
    /\ video_id # <<>>
    /\ clean_video_id = video_id

(***************************************************************************)
(* C15: while a request waits in its sleep or in an upstream call, the     *)
(* event loop can run another request: at every such point of a handler    *)
(* the start of a further request is possible.                             *)
(***************************************************************************)
C15_WaitYieldsToOthers ==
    ( /\ pc \in {"sleep", "list_transcripts", "fetch_direct", "translate_en",
                 "translate_any"}
      /\ served < MaxRequests ) =>
        ENABLED (ReceiveTranscript \/ ReceiveLanguages)

(***************************************************************************)
(* C16: get_available_languages never reads and never changes the cache:   *)
(* no cache operation happens during such a request, the cache is the same *)
(* after every one of its steps, and its answer is the one that the        *)
(* validation and the listing alone determine (one sleep, one listing, the *)
(* listed tracks), whatever the cache holds.                               *)
(***************************************************************************)
C16_NoCacheOps ==
    endpoint = "languages" =>
        /\ cache_ops = <<>>
        /\ pc # "cache_lookup"
        /\ pc = "done" =>
              \/ /\ ~WellFormedId(clean_video_id)
                 /\ calls = <<>>
                 /\ sleeps = <<>>
                 /\ Failed
              \/ /\ WellFormedId(clean_video_id)
                 /\ sleeps = <<RETRY_DELAY>>
                 /\ Len(calls) = 1
                 /\ calls[1].stage = "list"
                 /\ IF calls[1].outcome = "ok"
                    THEN /\ response.status_code = 200
                         /\ response.languages.video_id = clean_video_id
                         /\ response.languages.manual =
                                LanguageItems(transcript_list.manual)
                         /\ response.languages.generated =
                                LanguageItems(transcript_list.generated)
                    ELSE Failed

C16_CacheStep == endpoint' = "languages" => transcript_cache' = transcript_cache

C16_LanguagesLeaveCache == [](C16_NoCacheOps) /\ [][C16_CacheStep]_vars

\* The languages of a video were listed upstream while the cache held a
\* transcript of the same video.
C16_Witness ==
    /\ endpoint = "languages"
    /\ pc = "done"
    /\ response.status_code = 200
    /\ response.languages.manual # <<>>
    /\ \E lang \in RequestedLanguages :
          CacheKey(clean_video_id, lang) \in DOMAIN transcript_cache
    /\ Len(calls) = 1

(***************************************************************************)
(* C17: when the listing of a get_transcript request fails, of whatever    *)
(* kind (VideoUnavailable, TranscriptsDisabled, TooManyRequests, other),   *)
(* the request ends there: the listing is its only upstream call, nothing  *)
(* is written to the cache, and the detail of the error the caller gets    *)
(* holds the reason of that failure.                                       *)
(***************************************************************************)
C17_ListingFailureTerminal ==
    ( /\ endpoint = "transcript"
      /\ calls # <<>>
      /\ calls[1].stage = "list"
      /\ calls[1].outcome # "ok" ) =>
        LET kind == calls[1].outcome
            reason == IF kind = "VideoUnavailable" THEN UnavailableMessage
                      ELSE IF kind = "TooManyRequests" THEN RateLimitMessage
                      ELSE <<kind>>
        IN  /\ pc = "done"
            /\ Len(calls) = 1
            /\ \A i \in DOMAIN cache_ops : cache_ops[i].op # "put"
            /\ Failed
            /\ Contains(response.detail, reason)

\* The upstream answered the listing with TranscriptsDisabled.
C17_Witness ==
    /\ endpoint = "transcript"
    /\ Len(calls) = 1
    /\ calls[1].outcome = "TranscriptsDisabled"
    /\ Failed
    /\ Contains(response.detail, <<"TranscriptsDisabled">>)
    /\ Len(cache_ops) = 1

(***************************************************************************)
(* C18: a get_transcript request writes to the cache exactly when one of   *)
(* its three stages succeeded (direct fetch, translation from English,     *)
(* translation from the first manually created track); the write is under  *)
(* the key of the normalised identifier and the requested language, never  *)
(* the language of the track translated from; it stores the transcript the *)
(* caller receives, stamped with the current time, and changes no other    *)
(* key; so a lookup of the same identifier and requested language less     *)
(* than CACHE_DURATION later returns that transcript.                      *)
(***************************************************************************)
C18_WriteAtSuccess ==
    (endpoint = "transcript" /\ pc = "done") =>
        LET key == clean_video_id \o <<"_">> \o language
            puts == {j \in DOMAIN cache_ops : cache_ops[j].op = "put"}
        IN  /\ puts # {} <=> \E i \in DOMAIN calls : Succeeded(i)
            /\ \A j \in puts :
                  /\ j = Len(cache_ops)
                  /\ cache_ops[j].key = key
                  /\ cache_ops[j].value =
                         [is_none |-> FALSE, transcript |-> response.transcript]
                  /\ response.status_code = 200
                  /\ key \in DOMAIN transcript_cache
                  /\ transcript_cache[key] =
                         [transcript |-> response.transcript, timestamp |-> now]
                  /\ \A d \in {0, CACHE_DURATION - 1} :
                        get_cached_transcript(transcript_cache, clean_video_id,
                                              language, now + d)
                            = [is_none |-> FALSE, transcript |-> response.transcript]

C18_WriteStep ==
    (Len(cache_ops') = Len(cache_ops) + 1 /\ cache_ops'[Len(cache_ops')].op = "put") =>
        LET key == clean_video_id \o <<"_">> \o language
        IN  /\ DOMAIN transcript_cache' = DOMAIN transcript_cache \cup {key}
            /\ \A k \in DOMAIN transcript_cache \ {key} :
                  transcript_cache'[k] = transcript_cache[k]

C18_KeyedByRequest == [](C18_WriteAtSuccess) /\ [][C18_WriteStep]_vars

\* A transcript translated from the Japanese track is cached under "th".
C18_Witness ==
    /\ endpoint = "transcript"
    /\ language = TH
    /\ Len(calls) = 4
    /\ calls[4].source = JA
    /\ Returned(<<Segment(JA, TH)>>)
    /\ CacheKey(clean_video_id, TH) \in DOMAIN transcript_cache
    /\ transcript_cache[CacheKey(clean_video_id, TH)].transcript = <<Segment(JA, TH)>>
    /\ CacheKey(clean_video_id, JA) \notin DOMAIN transcript_cache

(***************************************************************************)
(* C19: a get_transcript request that ends in an error has written nothing *)
(* to the cache, and no step other than a cache write changes the cache,   *)
(* except the lookup of a request, which may remove the entry of that      *)
(* request's own key when it is CACHE_DURATION old or older; so after a    *)
(* failed request every entry that was unexpired is still there with its   *)
(* payload and timestamp.                                                  *)
(***************************************************************************)
C19_FailedWroteNothing ==
    (endpoint = "transcript" /\ Failed) =>
        \A j \in DOMAIN cache_ops : cache_ops[j].op # "put"

C19_NonWriteStep ==
    ~(Len(cache_ops') = Len(cache_ops) + 1 /\ cache_ops'[Len(cache_ops')].op = "put") =>
        LET key == clean_video_id \o <<"_">> \o language
        IN  \/ transcript_cache' = transcript_cache
            \/ /\ pc = "cache_lookup"
               /\ key \in DOMAIN transcript_cache
               /\ now - transcript_cache[key].timestamp >= CACHE_DURATION
               /\ DOMAIN transcript_cache' = DOMAIN transcript_cache \ {key}
               /\ \A k \in DOMAIN transcript_cache' :
                     transcript_cache'[k] = transcript_cache[k]

C19_ErrorsLeaveCache == [](C19_FailedWroteNothing) /\ [][C19_NonWriteStep]_vars

\* A request failed after its last fallback while the cache held the entry
\* that an earlier request wrote under another key; the entry is unchanged.
C19_Witness ==
    /\ endpoint = "transcript"
    /\ Failed
    /\ Len(calls) = 4
    /\ Len(cache_ops) = 1
    /\ \E k \in DOMAIN transcript_cache :
          /\ k # CacheKey(clean_video_id, language)
          /\ transcript_cache[k].timestamp < now
          /\ transcript_cache[k].transcript # <<>>

(***************************************************************************)
(* C20: the keys of two requests with well-formed identifiers are equal    *)
(* only when the identifiers are equal and the languages are equal, also   *)
(* for identifiers and language codes that contain "_"; every key of the   *)
(* cache belongs to exactly one (identifier, language); and a cache write  *)
(* for one (identifier, language) leaves what a lookup of any other one    *)
(* returns unchanged.                                                      *)
(***************************************************************************)
ProbeIds ==
    {ID1, ID2, [ID2 EXCEPT ![ID_LENGTH] = "_"], [ID1 EXCEPT ![ID_LENGTH] = "_"]}

ProbeLanguages ==
    RequestedLanguages
        \cup {<<>>, <<"_">>, <<"h">>, <<"_", "t", "h">>, <<"t", "h", "_", "T", "H">>,
              <<"1", "_", "t", "h">>}

\* The first conjunct does not depend on the state and is evaluated in the
\* initial state only; the second one compares the key of the running
\* request with the keys of all other pairs.
C20_KeysDistinct ==
    /\ pc = "idle" =>
          \A id1, id2 \in ProbeIds : \A lang1, lang2 \in ProbeLanguages :
              CacheKey(id1, lang1) = CacheKey(id2, lang2) => (id1 = id2 /\ lang1 = lang2)
    /\ (endpoint = "transcript" /\ WellFormedId(clean_video_id)) =>
          \A id \in ProbeIds : \A lang \in ProbeLanguages :
              CacheKey(id, lang) = CacheKey(clean_video_id, language) =>
                  (id = clean_video_id /\ lang = language)
    /\ \A k \in DOMAIN transcript_cache :
          Cardinality({p \in ProbeIds \X ProbeLanguages : CacheKey(p[1], p[2]) = k}) = 1

C20_WriteStep ==
    (Len(cache_ops') = Len(cache_ops) + 1 /\ cache_ops'[Len(cache_ops')].op = "put") =>
        \A id \in ProbeIds : \A lang \in ProbeLanguages :
            (id # clean_video_id \/ lang # language) =>
                get_cached_transcript(transcript_cache', id, lang, now)
                    = get_cached_transcript(transcript_cache, id, lang, now)

C20_KeysDoNotCollide == [](C20_KeysDistinct) /\ [][C20_WriteStep]_vars

\* Two languages of the identifier with "_" are cached side by side, each
\* with its own transcript.
C20_Witness ==
    /\ DOMAIN transcript_cache = {CacheKey(ID2, TH), CacheKey(ID2, EN)}
    /\ get_cached_transcript(transcript_cache, ID2, TH, now).transcript
           = <<Segment(TH, TH)>>
    /\ get_cached_transcript(transcript_cache, ID2, EN, now).transcript
           = <<Segment(EN, EN)>>

====
